---- MODULE Spec2Model ----
(***************************************************************************)
(* Model of src/mailbox.rs: the typed mailbox handles Mailbox<T> and       *)
(* LinkMailbox<T>, their shared receive engine receive_, the mode          *)
(* transformer TransformMailbox and the byte-stream adapter MessageRw,     *)
(* running against the host message service (message::receive,            *)
(* message::get_tag, message::read_data, process::die_when_link_dies).     *)
(*                                                                         *)
(* The payload type T is instantiated as bool in the MessagePack encoding: *)
(* the byte c2 is false, c3 is true, every other first byte (here a0, an   *)
(* empty string) is a value of another type.                               *)
(***************************************************************************)
EXTENDS Integers, Sequences, FiniteSets, TLC

(* ------------------------------ bounds -------------------------------- *)

\* Messages senders send to the process in total.
MaxSent == 2

\* The low 32 bits of a Duration's whole milliseconds range over 0..MaxMs.
MaxMs == 1

(* ----------------------------- constants ------------------------------ *)

SIGNAL == 1

TIMEOUT == 9027

\* The discriminator of a data message.
DATA == 0

\* Tag values senders, peers and receivers use: 0, which an untagged message
\* carries, and two other values.
Tags == {0, 1, 2}

\* Option<X>: None is the empty sequence, Some(x) the sequence <<x>>.
None == <<>>

Some(x) == <<x>>

\* std::time::Duration: hi * 2^32 + lo whole milliseconds, and frac = TRUE
\* when a positive part below one millisecond is left over.
Durations == [hi : {0, 1}, lo : 0..MaxMs, frac : BOOLEAN]

\* Payloads senders put into messages: a value of T (false), and a value of
\* another type followed by a byte that alone would decode as T (true).
Payloads == {<<"c2">>, <<"a0", "c3">>}

NoMsg == [kind |-> "none", tag |-> 0, data |-> <<>>]

DataMsgs == [kind : {"data"}, tag : Tags, data : Payloads]

NoResult == [msg |-> "None", res |-> "None", val |-> "None", tag |-> None]

NoCall == [name |-> "none", on |-> "none", tag |-> None]

NoXform == [name |-> "none", on |-> "none", modeBefore |-> "none", calls |-> <<>>]

VARIABLES
    handle,     \* the type of the handle the process holds
    linkMode,   \* host: the process-wide link-mode flag
    peerAlive,  \* host: the linked peer of the process is alive
    sent,       \* messages sent to the process so far
    queue,      \* host: the process's mailbox
    cur,        \* host: the message in the scratch area
    pos,        \* host: bytes of cur already read
    taken,      \* queue position of the entry the host handed to the operation
    pc,         \* "idle", "waiting" (inside message::receive), "aborted" (the
                \* assertion of Mailbox::receive_ failed), "panicked"
                \* (normal_or_unwrap on a Signal), "dead" (ended by a link death)
    call,       \* the current or most recent handle operation and its tag argument
    timeout,    \* the timeout argument of the receive in progress
    modeBefore, \* linkMode when that operation started
    waitLeft,   \* host: milliseconds left of the current wait
    calls,      \* host calls made by that operation, in order
    prevXform,  \* the operation before it, when that was a transformer operation
    result      \* what that operation returned

vars == <<handle, linkMode, peerAlive, sent, queue, cur, pos, taken, pc, call, timeout,
          modeBefore, waitLeft, calls, prevXform, result>>

(* ------------------------- host message service ------------------------ *)

\* message::receive: tag 0 matches every queued entry.
Matches(m, tag) == tag = 0 \/ m.tag = tag

\* Index of the first queued entry the tag matches; 0 when there is none.
FirstMatch(q, tag) ==
    IF \E i \in 1..Len(q) : Matches(q[i], tag)
    THEN CHOOSE i \in 1..Len(q) :
            /\ Matches(q[i], tag)
            /\ \A j \in 1..(i - 1) : ~Matches(q[j], tag)
    ELSE 0

RemoveAt(q, i) == SubSeq(q, 1, i - 1) \o SubSeq(q, i + 1, Len(q))

\* The discriminator message::receive returns for a dequeued entry.
Discriminator(m) == IF m.kind = "signal" THEN SIGNAL ELSE DATA

\* process::die_when_link_dies(arg)
SetLinkMode(arg) == IF arg = 0 THEN "trap" ELSE "terminate"

\* message::read_data: the bytes of the current message not read so far.
Unread(m, p) == SubSeq(m.data, p + 1, Len(m.data))

HostReceive(tag, wait) == [fn |-> "receive", a |-> tag, b |-> wait]

HostGetTag == [fn |-> "get_tag", a |-> 0, b |-> 0]

HostReadData == [fn |-> "read_data", a |-> 0, b |-> 0]

HostDieWhenLinkDies(arg) == [fn |-> "die_when_link_dies", a |-> arg, b |-> 0]

(* --------------------------- receive engine ---------------------------- *)

\* Mutant of EffectiveTag: the tag filter is dropped.
EffectiveTagIgnored(tag) == 0

\* Mutant of EffectiveTag: no filter goes to the host as a value of its own.
EffectiveTagNoneDistinct(tag) == IF tag = None THEN 3 ELSE tag[1]

\* let tag = tag.unwrap_or(0);
EffectiveTag(tag) == IF tag = None THEN 0 ELSE tag[1]

\* Duration::as_millis: the whole milliseconds, as a 128-bit value kept in
\* two words [hi, lo].
AsMillis(d) == [hi |-> d.hi, lo |-> d.lo]

\* Mutant of TimeoutMs: a wait below one millisecond is not rounded up.
TimeoutMsNotRounded(t) == IF t = None THEN 0 ELSE AsMillis(t[1]).lo

\* match timeout.as_millis() { 0 => 1, other => other as u32 }: the cast
\* keeps the low 32 bits.
TimeoutMs(t) ==
    IF t = None THEN 0
    ELSE IF AsMillis(t[1]).hi = 0 /\ AsMillis(t[1]).lo = 0 THEN 1
    ELSE AsMillis(t[1]).lo

\* The request receive_ hands to message::receive.
Request(tag, t) == HostReceive(EffectiveTag(tag), TimeoutMs(t))

\* Mutant of LinkRequest: a wait below one millisecond is not rounded up.
LinkRequestNotRounded(tag, t) ==
    HostReceive(IF tag = None THEN 0 ELSE tag[1],
                IF t = None THEN 0 ELSE AsMillis(t[1]).lo)

\* The request LinkMailbox::receive_, which has its own copy of the
\* computation, hands to message::receive.
LinkRequest(tag, t) ==
    HostReceive(IF tag = None THEN 0 ELSE tag[1],
                IF t = None THEN 0
                ELSE IF AsMillis(t[1]).hi = 0 /\ AsMillis(t[1]).lo = 0 THEN 1
                ELSE AsMillis(t[1]).lo)

\* The request of receive_ of the handle type `on`.
RequestOf(on, tag, t) ==
    IF on = "Mailbox" THEN Request(tag, t) ELSE LinkRequest(tag, t)

\* rmp_serde::from_read(MessageRw {}) at T = bool: one marker byte is read
\* from the stream; an exhausted stream or a marker of another type fails.
Decode(bytes) ==
    IF bytes = <<>> THEN [ok |-> FALSE, val |-> "None", used |-> 0]
    ELSE IF bytes[1] = "c2" THEN [ok |-> TRUE, val |-> "false", used |-> 1]
    ELSE IF bytes[1] = "c3" THEN [ok |-> TRUE, val |-> "true", used |-> 1]
    ELSE [ok |-> FALSE, val |-> "None", used |-> 1]

\* Mutant of MailboxClassify: the check for the TIMEOUT answer is missing.
MailboxClassifyNoTimeout(message_type, m, p) ==
    IF message_type = SIGNAL
    THEN [abort |-> TRUE, result |-> NoResult, used |-> 0, calls |-> <<>>]
    ELSE LET d == Decode(Unread(m, p)) IN
         [abort |-> FALSE,
          result |-> [msg |-> "Bare",
                      res |-> IF d.ok THEN "Ok" ELSE "DeserializationFailed",
                      val |-> d.val, tag |-> None],
          used |-> d.used, calls |-> <<HostReadData>>]

\* Mutant of MailboxClassify: a decode error is reported as Timeout.
MailboxClassifyErrAsTimeout(message_type, m, p) ==
    IF message_type = SIGNAL
    THEN [abort |-> TRUE, result |-> NoResult, used |-> 0, calls |-> <<>>]
    ELSE IF message_type = TIMEOUT
    THEN [abort |-> FALSE,
          result |-> [msg |-> "Bare", res |-> "Timeout", val |-> "None", tag |-> None],
          used |-> 0, calls |-> <<>>]
    ELSE LET d == Decode(Unread(m, p)) IN
         [abort |-> FALSE,
          result |-> [msg |-> "Bare",
                      res |-> IF d.ok THEN "Ok" ELSE "Timeout",
                      val |-> d.val, tag |-> None],
          used |-> d.used, calls |-> <<HostReadData>>]

\* Mutant of MailboxClassify: the assertion on the SIGNAL answer is missing.
MailboxClassifyNoAssert(message_type, m, p) ==
    IF message_type = TIMEOUT
    THEN [abort |-> FALSE,
          result |-> [msg |-> "Bare", res |-> "Timeout", val |-> "None", tag |-> None],
          used |-> 0, calls |-> <<>>]
    ELSE LET d == Decode(Unread(m, p)) IN
         [abort |-> FALSE,
          result |-> [msg |-> "Bare",
                      res |-> IF d.ok THEN "Ok" ELSE "DeserializationFailed",
                      val |-> d.val, tag |-> None],
          used |-> d.used, calls |-> <<HostReadData>>]

\* Mailbox::receive_ from the host's answer on: message_type is the
\* discriminator, m and p the scratch message and its read position.
MailboxClassify(message_type, m, p) ==
    IF message_type = SIGNAL
    THEN [abort |-> TRUE, result |-> NoResult, used |-> 0, calls |-> <<>>]
    ELSE IF message_type = TIMEOUT
    THEN [abort |-> FALSE,
          result |-> [msg |-> "Bare", res |-> "Timeout", val |-> "None", tag |-> None],
          used |-> 0, calls |-> <<>>]
    ELSE LET d == Decode(Unread(m, p)) IN
         [abort |-> FALSE,
          result |-> [msg |-> "Bare",
                      res |-> IF d.ok THEN "Ok" ELSE "DeserializationFailed",
                      val |-> d.val, tag |-> None],
          used |-> d.used, calls |-> <<HostReadData>>]

\* Mutant of WithTag: the tag is asked for before the result is looked at.
WithTagAlways(r, m) ==
    [result |-> [r EXCEPT !.tag = Some(m.tag)], calls |-> <<HostGetTag>>]

\* Mailbox::receive_with_tag after receive_ returned r: the ? operator hands
\* an error back, success asks the host for the tag of the current message.
WithTag(r, m) ==
    IF r.res = "Ok"
    THEN [result |-> [r EXCEPT !.tag = Some(m.tag)], calls |-> <<HostGetTag>>]
    ELSE [result |-> r, calls |-> <<>>]

\* Mutant of LinkClassify: the SIGNAL answer is not told from a data message.
LinkClassifyNoSignal(message_type, m, p) ==
    IF message_type = TIMEOUT
    THEN [abort |-> FALSE,
          result |-> [msg |-> "Normal", res |-> "Timeout", val |-> "None", tag |-> None],
          used |-> 0, calls |-> <<>>]
    ELSE LET d == Decode(Unread(m, p)) IN
         [abort |-> FALSE,
          result |-> [msg |-> "Normal",
                      res |-> IF d.ok THEN "Ok" ELSE "DeserializationFailed",
                      val |-> d.val, tag |-> None],
          used |-> d.used, calls |-> <<HostReadData>>]

\* LinkMailbox::receive_ from the host's answer on.
LinkClassify(message_type, m, p) ==
    IF message_type = SIGNAL
    THEN [abort |-> FALSE,
          result |-> [msg |-> "Signal", res |-> "None", val |-> "None",
                      tag |-> Some(m.tag)],
          used |-> 0, calls |-> <<HostGetTag>>]
    ELSE IF message_type = TIMEOUT
    THEN [abort |-> FALSE,
          result |-> [msg |-> "Normal", res |-> "Timeout", val |-> "None", tag |-> None],
          used |-> 0, calls |-> <<>>]
    ELSE LET d == Decode(Unread(m, p)) IN
         [abort |-> FALSE,
          result |-> [msg |-> "Normal",
                      res |-> IF d.ok THEN "Ok" ELSE "DeserializationFailed",
                      val |-> d.val, tag |-> None],
          used |-> d.used, calls |-> <<HostReadData>>]

\* Message::is_signal
IsSignal(m) == m.msg = "Signal"

\* Mutant of NormalOrUnwrap: a Signal is handed back as an error, no panic.
NormalOrUnwrapNoPanic(m) ==
    IF m.msg = "Normal"
    THEN [panic |-> FALSE, value |-> [m EXCEPT !.msg = "Bare"]]
    ELSE [panic |-> FALSE,
          value |-> [msg |-> "Bare", res |-> "Timeout", val |-> "None", tag |-> None]]

\* Message::normal_or_unwrap: Normal(message) gives message, Signal panics.
NormalOrUnwrap(m) ==
    IF m.msg = "Normal"
    THEN [panic |-> FALSE, value |-> [m EXCEPT !.msg = "Bare"]]
    ELSE [panic |-> TRUE, value |-> NoResult]

(* ------------------------------- state --------------------------------- *)

Init ==
    /\ handle = "Mailbox"
    /\ linkMode = "terminate"
    /\ peerAlive = TRUE
    /\ sent = 0
    /\ queue = <<>>
    /\ cur = NoMsg
    /\ pos = 0
    /\ taken = 0
    /\ pc = "idle"
    /\ call = NoCall
    /\ timeout = None
    /\ modeBefore = "terminate"
    /\ waitLeft = 0
    /\ calls = <<>>
    /\ prevXform = NoXform
    /\ result = NoResult

(* ------------------------- environment actions ------------------------- *)

\* A sender's message reaches the mailbox.
Arrive ==
    /\ pc \in {"idle", "waiting"}
    /\ sent < MaxSent
    /\ sent' = sent + 1
    /\ \E m \in DataMsgs : queue' = Append(queue, m)
    /\ UNCHANGED <<handle, linkMode, peerAlive, cur, pos, taken, pc, call, timeout,
                   modeBefore, waitLeft, calls, prevXform, result>>

\* A linked peer dies: under trap its death is queued as a signal message,
\* under terminate this process ends.
PeerDies ==
    /\ pc \in {"idle", "waiting"}
    /\ peerAlive
    /\ peerAlive' = FALSE
    /\ \E t \in Tags :
          queue' = IF linkMode = "trap"
                   THEN Append(queue, [kind |-> "signal", tag |-> t, data |-> <<>>])
                   ELSE queue
    /\ pc' = IF linkMode = "trap" THEN pc ELSE "dead"
    /\ UNCHANGED <<handle, linkMode, sent, cur, pos, taken, call, timeout, modeBefore,
                   waitLeft, calls, prevXform, result>>

\* The host clock advances by one millisecond during a bounded wait that
\* nothing queued can end.
Tick ==
    /\ pc = "waiting"
    /\ waitLeft > 0
    /\ FirstMatch(queue, calls[1].a) = 0
    /\ waitLeft' = waitLeft - 1
    /\ UNCHANGED <<handle, linkMode, peerAlive, sent, queue, cur, pos, taken, pc, call,
                   timeout, modeBefore, calls, prevXform, result>>

(* --------------------------- receive operations ------------------------ *)

\* receive_ up to and including the call of message::receive.
Receive_(on, name, tag, t) ==
    /\ pc = "idle"
    /\ handle = on
    /\ call' = [name |-> name, on |-> on, tag |-> tag]
    /\ timeout' = t
    /\ modeBefore' = linkMode
    /\ calls' = <<RequestOf(on, tag, t)>>
    /\ waitLeft' = RequestOf(on, tag, t).b
    /\ pc' = "waiting"
    /\ prevXform' = NoXform
    /\ result' = NoResult
    /\ taken' = 0
    /\ UNCHANGED <<handle, linkMode, peerAlive, sent, queue, cur, pos>>

MailboxReceive == Receive_("Mailbox", "receive", None, None)

MailboxReceiveTimeout ==
    \E d \in Durations : Receive_("Mailbox", "receive_timeout", None, Some(d))

MailboxReceiveWithTag == Receive_("Mailbox", "receive_with_tag", None, None)

MailboxTagReceive ==
    \E t \in Tags : Receive_("Mailbox", "tag_receive", Some(t), None)

MailboxTagReceiveTimeout ==
    \E t \in Tags, d \in Durations :
        Receive_("Mailbox", "tag_receive_timeout", Some(t), Some(d))

LinkReceive == Receive_("LinkMailbox", "receive", None, None)

LinkReceiveTimeout ==
    \E d \in Durations : Receive_("LinkMailbox", "receive_timeout", None, Some(d))

LinkTagReceive ==
    \E t \in Tags : Receive_("LinkMailbox", "tag_receive", Some(t), None)

LinkTagReceiveTimeout ==
    \E t \in Tags, d \in Durations :
        Receive_("LinkMailbox", "tag_receive_timeout", Some(t), Some(d))

\* The host's answer to message::receive(req.a, req.b) once it answers with
\* the queue q and the scratch message c read up to p: the first matching
\* entry moves from the queue into the scratch area; without one a bounded
\* wait expires and queue and scratch area stay as they are.
HostAnswer(req, q, c, p) ==
    LET i == FirstMatch(q, req.a) IN
    IF i # 0
    THEN [message_type |-> Discriminator(q[i]), queue |-> RemoveAt(q, i),
          cur |-> q[i], pos |-> 0, taken |-> i]
    ELSE [message_type |-> TIMEOUT, queue |-> q, cur |-> c, pos |-> p, taken |-> 0]

\* Mutant of Complete: the request is made a second time before the answer
\* is looked at.
CompleteRetry(on, name, req, q, c, p) ==
    LET a == HostAnswer(req, q, c, p)
        o == IF on = "Mailbox"
             THEN MailboxClassify(a.message_type, a.cur, a.pos)
             ELSE LinkClassify(a.message_type, a.cur, a.pos)
        w == IF name = "receive_with_tag" /\ ~o.abort
             THEN WithTag(o.result, a.cur)
             ELSE [result |-> o.result, calls |-> <<>>]
    IN [queue |-> a.queue, cur |-> a.cur, pos |-> a.pos + o.used,
        taken |-> a.taken, pc |-> IF o.abort THEN "aborted" ELSE "idle",
        result |-> w.result, calls |-> <<req, req>> \o o.calls \o w.calls]

\* The operation `name` of the handle type `on` from the host's answer to
\* its request req on: what it returns and what it leaves behind.
Complete(on, name, req, q, c, p) ==
    LET a == HostAnswer(req, q, c, p)
        o == IF on = "Mailbox"
             THEN MailboxClassify(a.message_type, a.cur, a.pos)
             ELSE LinkClassify(a.message_type, a.cur, a.pos)
        w == IF name = "receive_with_tag" /\ ~o.abort
             THEN WithTag(o.result, a.cur)
             ELSE [result |-> o.result, calls |-> <<>>]
    IN [queue |-> a.queue, cur |-> a.cur, pos |-> a.pos + o.used,
        taken |-> a.taken, pc |-> IF o.abort THEN "aborted" ELSE "idle",
        result |-> w.result, calls |-> <<req>> \o o.calls \o w.calls]

\* The host can answer the pending message::receive: an entry matches the
\* tag, or the wait was bounded and has run out.
CanAnswer ==
    /\ pc = "waiting"
    /\ \/ FirstMatch(queue, calls[1].a) # 0
       \/ calls[1].b # 0 /\ waitLeft = 0

\* message::receive returns and the operation runs to its end.
Return(on) ==
    /\ handle = on
    /\ CanAnswer
    /\ LET c == Complete(on, call.name, calls[1], queue, cur, pos)
       IN /\ queue' = c.queue
          /\ cur' = c.cur
          /\ pos' = c.pos
          /\ taken' = c.taken
          /\ pc' = c.pc
          /\ result' = c.result
          /\ calls' = c.calls
    /\ waitLeft' = 0
    /\ timeout' = None
    /\ UNCHANGED <<handle, linkMode, peerAlive, sent, call, modeBefore, prevXform>>

MailboxReturn == Return("Mailbox")

\* Mutant of LinkReturn: the receive leaves trapping before it returns.
LinkReturnLeavesTrap ==
    /\ handle = "LinkMailbox"
    /\ CanAnswer
    /\ LET c == Complete("LinkMailbox", call.name, calls[1], queue, cur, pos)
       IN /\ queue' = c.queue
          /\ cur' = c.cur
          /\ pos' = c.pos
          /\ taken' = c.taken
          /\ pc' = c.pc
          /\ result' = c.result
          /\ calls' = c.calls
    /\ waitLeft' = 0
    /\ timeout' = None
    /\ linkMode' = SetLinkMode(1)
    /\ UNCHANGED <<handle, peerAlive, sent, call, modeBefore, prevXform>>

LinkReturn == Return("LinkMailbox")

\* The caller applies normal_or_unwrap to the Message a LinkMailbox receive
\* returned.
UnwrapMessage ==
    /\ pc = "idle"
    /\ result.msg \in {"Normal", "Signal"}
    /\ pc' = IF NormalOrUnwrap(result).panic THEN "panicked" ELSE "idle"
    /\ result' = NormalOrUnwrap(result).value
    /\ UNCHANGED <<handle, linkMode, peerAlive, sent, queue, cur, pos, taken, call,
                   timeout, modeBefore, waitLeft, calls, prevXform>>

(* --------------------------- mode transformer -------------------------- *)

\* A transformer operation of the handle type `on`: it makes the host calls
\* `hostCalls` and returns a handle of type `to`.
Transform(on, name, hostCalls, to) ==
    /\ pc = "idle"
    /\ handle = on
    /\ linkMode' = IF hostCalls = <<>> THEN linkMode
                   ELSE SetLinkMode(hostCalls[Len(hostCalls)].a)
    /\ handle' = to
    /\ prevXform' = IF call.name \in {"catch_link_panic", "panic_if_link_panics"}
                    THEN [name |-> call.name, on |-> call.on,
                          modeBefore |-> modeBefore, calls |-> calls]
                    ELSE NoXform
    /\ call' = [name |-> name, on |-> on, tag |-> None]
    /\ modeBefore' = linkMode
    /\ calls' = hostCalls
    /\ result' = NoResult
    /\ taken' = 0
    /\ UNCHANGED <<peerAlive, sent, queue, cur, pos, pc, timeout, waitLeft>>

\* Mutant of MailboxCatchLinkPanic: the host is told to end the process on a
\* link death.
MailboxCatchLinkPanicWrongArg ==
    Transform("Mailbox", "catch_link_panic", <<HostDieWhenLinkDies(1)>>, "LinkMailbox")

MailboxCatchLinkPanic ==
    Transform("Mailbox", "catch_link_panic", <<HostDieWhenLinkDies(0)>>, "LinkMailbox")

MailboxPanicIfLinkPanics ==
    Transform("Mailbox", "panic_if_link_panics", <<>>, "Mailbox")

\* Mutant of LinkCatchLinkPanic: the identity direction tells the host again.
LinkCatchLinkPanicHostCall ==
    Transform("LinkMailbox", "catch_link_panic", <<HostDieWhenLinkDies(1)>>, "LinkMailbox")

LinkCatchLinkPanic ==
    Transform("LinkMailbox", "catch_link_panic", <<>>, "LinkMailbox")

\* Mutant of LinkPanicIfLinkPanics: the host is not told to leave trapping.
LinkPanicIfLinkPanicsNoHostCall ==
    Transform("LinkMailbox", "panic_if_link_panics", <<>>, "Mailbox")

LinkPanicIfLinkPanics ==
    Transform("LinkMailbox", "panic_if_link_panics", <<HostDieWhenLinkDies(1)>>, "Mailbox")

Next ==
    \/ Arrive
    \/ PeerDies
    \/ Tick
    \/ MailboxReceive
    \/ MailboxReceiveTimeout
    \/ MailboxReceiveWithTag
    \/ MailboxTagReceive
    \/ MailboxTagReceiveTimeout
    \/ LinkReceive
    \/ LinkReceiveTimeout
    \/ LinkTagReceive
    \/ LinkTagReceiveTimeout
    \/ MailboxReturn
    \/ LinkReturn
    \/ UnwrapMessage
    \/ MailboxCatchLinkPanic
    \/ MailboxPanicIfLinkPanics
    \/ LinkCatchLinkPanic
    \/ LinkPanicIfLinkPanics

Spec == Init /\ [][Next]_vars

\* The host clock keeps running and the host answers a receive it can answer.
FairSpec == Spec /\ WF_vars(Tick) /\ WF_vars(MailboxReturn) /\ WF_vars(LinkReturn)

(* ------------------------------- claims -------------------------------- *)

\* A transformer operation is called (and returns) in this step.
XformStep ==
    /\ pc = "idle"
    /\ call'.name \in {"catch_link_panic", "panic_if_link_panics"}
    /\ (call' # call \/ prevXform' # prevXform)

\* The transformer operation called in this step is an identity direction.
IdentityXformStep ==
    /\ XformStep
    /\ \/ call'.on = "Mailbox" /\ call'.name = "panic_if_link_panics"
       \/ call'.on = "LinkMailbox" /\ call'.name = "catch_link_panic"

\* message::receive has returned and the operation has run to its end.
ReturnStep == pc = "waiting" /\ pc' \in {"idle", "aborted"}

ZeroDuration == [hi |-> 0, lo |-> 0, frac |-> FALSE]

OneMs == [hi |-> 0, lo |-> 1, frac |-> FALSE]

\* rmp_serde's encoding of a value of T = bool.
Encode(v) == IF v = "true" THEN <<"c3">> ELSE <<"c2">>

\* What the operation `name` of the handle type `on`, called now with the
\* arguments tag and t, ends with when no further message arrives.
Outcome(on, name, tag, t) ==
    LET req == RequestOf(on, tag, t) IN
    IF FirstMatch(queue, req.a) = 0 /\ req.b = 0
    THEN <<"blocks", req>>
    ELSE <<"returns", req, Complete(on, name, req, queue, cur, pos)>>

\* C1: selective receive neither destroys nor reorders: when tag_receive(t)
\* returns, the queue is the queue before minus exactly the returned entry;
\* for t # 0 that entry is the first one tagged t, however many entries with
\* other tags were queued before it, and a wildcard receive() returns the
\* entry at the head.
C1_SelectiveReceive ==
    [][/\ (pc = "waiting" /\ pc' = "idle" /\ call.name = "tag_receive") =>
            /\ taken' \in 1..Len(queue)
            /\ cur' = queue[taken']
            /\ queue' = RemoveAt(queue, taken')
            /\ call.tag[1] # 0 =>
                  /\ cur'.tag = call.tag[1]
                  /\ \A j \in 1..(taken' - 1) : queue[j].tag # call.tag[1]
       /\ (pc = "waiting" /\ pc' = "idle" /\ call.name = "receive") =>
            /\ taken' = 1
            /\ cur' = Head(queue)
            /\ queue' = Tail(queue)
      ]_vars

\* tag_receive(2) on the queue <<tagged 1, tagged 2>> has returned the second
\* entry and the entry tagged 1 is still queued.
C1_Witness ==
    /\ pc = "idle"
    /\ call = [name |-> "tag_receive", on |-> "Mailbox", tag |-> Some(2)]
    /\ result.res = "Ok"
    /\ taken = 2
    /\ cur.tag = 2
    /\ Len(queue) = 1
    /\ queue[1].tag = 1

\* C2: a tag-filtered receive (tag_receive, tag_receive_timeout, on either
\* handle) called with the tag t, 0 included, returns a payload only from a
\* message that carries exactly the tag t.
C2_TagFilterExact ==
    [][(ReturnStep /\ call.tag # None /\ result'.res = "Ok")
          => cur'.tag = call.tag[1]]_vars

\* C3: a receive with timeout = Some(d) hands the host a wait that is not 0
\* and does not exceed d rounded up to whole milliseconds (one millisecond at
\* least); only timeout = None gives the wait 0.
C3_WaitNonzeroBounded ==
    (pc = "waiting" /\ timeout # None) =>
        LET d == timeout[1]
            wait == calls[1].b
            up == d.lo + (IF d.frac THEN 1 ELSE 0)
        IN /\ wait # 0
           /\ d.hi > 0 \/ wait <= (IF up = 0 THEN 1 ELSE up)

C5_TimeoutLeavesState ==
    [][/\ (ReturnStep /\ taken' = 0) =>
            /\ pc' = "idle"
            /\ result' = [msg |-> IF call.on = "Mailbox" THEN "Bare" ELSE "Normal",
                          res |-> "Timeout", val |-> "None", tag |-> None]
            /\ calls' = calls
            /\ queue' = queue
            /\ cur' = cur
            /\ pos' = pos
            /\ linkMode' = linkMode
       /\ (ReturnStep /\ FirstMatch(queue, calls[1].a) # 0) =>
            /\ taken' = FirstMatch(queue, calls[1].a)
            /\ cur' = queue[taken']
            /\ result'.res # "Timeout"
      ]_vars

\* A receive has timed out while a message its filter does not match stayed
\* queued.
C5_Witness ==
    /\ pc = "idle"
    /\ result.res = "Timeout"
    /\ taken = 0
    /\ queue # <<>>

\* C6: a received data message is removed from the queue, it and no other;
\* the receive returns the value v when the payload is the encoding of v,
\* and DeserializationFailed when the payload is no encoding of a value of
\* T, whatever an earlier message left unread.
C6_DecodeFailureConsumes ==
    [][(ReturnStep /\ taken' # 0 /\ queue[taken'].kind = "data") =>
            /\ pc' = "idle"
            /\ cur' = queue[taken']
            /\ queue' = RemoveAt(queue, taken')
            /\ IF \E v \in {"false", "true"} : cur'.data = Encode(v)
               THEN /\ result'.res = "Ok"
                    /\ cur'.data = Encode(result'.val)
               ELSE /\ result'.res = "DeserializationFailed"
                    /\ result'.val = "None"
      ]_vars

\* A decode has failed with bytes of the message left unread and another
\* message still queued.
C6_Witness ==
    /\ pc = "idle"
    /\ result.res = "DeserializationFailed"
    /\ pos < Len(cur.data)
    /\ queue # <<>>

C8_RoundTrip ==
    (/\ call.name = "panic_if_link_panics"
     /\ call.on = "LinkMailbox"
     /\ prevXform.name = "catch_link_panic"
     /\ prevXform.on = "Mailbox") =>
        /\ handle = "Mailbox"
        /\ linkMode = prevXform.modeBefore
        /\ linkMode = "terminate"
        /\ Len(prevXform.calls) = 1
        /\ prevXform.calls[1].fn = "die_when_link_dies"
        /\ SetLinkMode(prevXform.calls[1].a) = "trap"
        /\ Len(calls) = 1
        /\ calls[1].fn = "die_when_link_dies"
        /\ SetLinkMode(calls[1].a) = "terminate"

\* The round trip has just been made.
C8_Witness ==
    /\ pc = "idle"
    /\ call.name = "panic_if_link_panics"
    /\ call.on = "LinkMailbox"
    /\ prevXform.name = "catch_link_panic"
    /\ prevXform.on = "Mailbox"

\* C9: every receive called with timeout = Some(d) returns control to the
\* caller, for every Duration d.
C9_BoundedReceiveReturns ==
    (pc = "waiting" /\ timeout # None) ~> (pc # "waiting")

\* C10: receive_timeout(0) and receive_timeout(1 ms) issue the same host
\* request, tag 0 and wait 1, and so end alike in every mailbox state, on
\* either handle type.
C10_ZeroIsOneMs ==
    /\ \A on \in {"Mailbox", "LinkMailbox"} :
          /\ Outcome(on, "receive_timeout", None, Some(ZeroDuration))[2] = HostReceive(0, 1)
          /\ Outcome(on, "receive_timeout", None, Some(ZeroDuration))
                = Outcome(on, "receive_timeout", None, Some(OneMs))
    /\ (/\ pc = "waiting"
        /\ call.name = "receive_timeout"
        /\ timeout \in {Some(ZeroDuration), Some(OneMs)})
          => calls[1] = HostReceive(0, 1) /\ waitLeft \in {0, 1}

\* receive_timeout(0) is waiting on the host with a message queued.
C10_Witness ==
    /\ pc = "waiting"
    /\ call.name = "receive_timeout"
    /\ timeout = Some(ZeroDuration)
    /\ calls[1].b = 1
    /\ queue # <<>>

\* C11: normal_or_unwrap panics on every Signal and gives back r unchanged
\* on Normal(r); is_signal is true exactly of the values it panics on.
C11_NormalOrUnwrap ==
    [][/\ result.msg \in {"Normal", "Signal"} =>
            (IsSignal(result) <=> NormalOrUnwrap(result).panic)
       /\ (/\ pc = "idle"
           /\ pc' \in {"idle", "panicked"}
           /\ call' = call
           /\ result.msg \in {"Normal", "Signal"}
           /\ (pc' = "panicked" \/ result' # result)) =>
            IF result.msg = "Signal"
            THEN pc' = "panicked" /\ IsSignal(result)
            ELSE /\ pc' = "idle"
                 /\ ~IsSignal(result)
                 /\ result'.msg = "Bare"
                 /\ result'.res = result.res
                 /\ result'.val = result.val
                 /\ result'.tag = result.tag
      ]_vars

\* normal_or_unwrap has panicked on the Signal a receive returned.
C11_Witness ==
    /\ pc = "panicked"
    /\ call.on = "LinkMailbox"
    /\ taken # 0
    /\ cur.kind = "signal"

\* C12: receive_with_tag returns, on success, the decoded payload of the
\* entry just removed from the queue together with that entry's tag, which it
\* asks the host for; on Timeout or a decode failure it returns the error
\* without a tag and without asking the host for one.
C12_ReceiveWithTag ==
    [][/\ (ReturnStep /\ call.name = "receive_with_tag" /\ pc' = "idle") =>
            /\ taken' \in 1..Len(queue)
            /\ queue' = RemoveAt(queue, taken')
            /\ IF result'.res = "Ok"
               THEN /\ Decode(queue[taken'].data).ok
                    /\ result'.val = Decode(queue[taken'].data).val
                    /\ result'.tag = Some(queue[taken'].tag)
                    /\ calls' = <<calls[1], HostReadData, HostGetTag>>
               ELSE /\ result'.res = "DeserializationFailed"
                    /\ ~Decode(queue[taken'].data).ok
                    /\ result'.tag = None
                    /\ \A i \in 1..Len(calls') : calls'[i].fn # "get_tag"
       /\ LET r == MailboxClassify(TIMEOUT, cur, pos).result
          IN /\ r.res = "Timeout"
             /\ WithTag(r, cur) = [result |-> r, calls |-> <<>>]
      ]_vars

\* receive_with_tag has returned a payload with the tag 2 of the entry it
\* removed while an entry with the tag 1 is still queued.
C12_Witness ==
    /\ pc = "idle"
    /\ call.name = "receive_with_tag"
    /\ result.res = "Ok"
    /\ result.tag = Some(2)
    /\ cur.tag = 2
    /\ Len(queue) = 1
    /\ queue[1].tag = 1

\* C13: the identity directions of the mode transformer (panic_if_link_panics
\* on a Mailbox, catch_link_panic on a LinkMailbox) make no host call and
\* return a handle of the same type; the link-mode flag, the queue and all
\* other host state are the same before and after.
C13_IdentityTransform ==
    [][IdentityXformStep =>
          /\ calls' = <<>>
          /\ handle = call'.on
          /\ handle' = handle
          /\ linkMode' = linkMode
          /\ modeBefore' = linkMode
          /\ queue' = queue
          /\ cur' = cur
          /\ pos' = pos
          /\ peerAlive' = peerAlive
          /\ sent' = sent
          /\ waitLeft' = waitLeft
          /\ pc' = "idle"
      ]_vars

\* catch_link_panic on a LinkMailbox has returned with a signal queued and
\* the flag still on trap.
C13_Witness ==
    /\ pc = "idle"
    /\ call = [name |-> "catch_link_panic", on |-> "LinkMailbox", tag |-> None]
    /\ calls = <<>>
    /\ handle = "LinkMailbox"
    /\ linkMode = "trap"
    /\ modeBefore = "trap"
    /\ queue # <<>>
    /\ queue[1].kind = "signal"

\* C14: the link-mode flag changes only in the two non-identity transformer
\* operations (catch_link_panic on a Mailbox, panic_if_link_panics on a
\* LinkMailbox); the start and the return of every receive operation,
\* whatever it returns, and normal_or_unwrap leave it as it is.
C14_FlagOnlyInTransform ==
    [][/\ linkMode' # linkMode =>
            /\ XformStep
            /\ ~IdentityXformStep
            /\ Len(calls') = 1
            /\ calls'[1].fn = "die_when_link_dies"
       /\ (pc' = "waiting" \/ ReturnStep \/ pc' = "panicked") => linkMode' = linkMode
       /\ ~XformStep => linkMode' = linkMode
       /\ call.name \notin {"none", "catch_link_panic", "panic_if_link_panics"} =>
            linkMode = modeBefore
      ]_vars

\* tag_receive_timeout on a LinkMailbox has returned Timeout and the flag is
\* on trap as it was when the operation started.
C14_Witness ==
    /\ pc = "idle"
    /\ call.name = "tag_receive_timeout"
    /\ call.on = "LinkMailbox"
    /\ result.res = "Timeout"
    /\ queue # <<>>
    /\ linkMode = "trap"
    /\ modeBefore = "trap"

\* C15: a receive operation of either handle makes exactly one receive
\* request to the host, none after the answer, and turns the answer into one
\* outcome: TIMEOUT into Timeout, SIGNAL into Signal on a LinkMailbox, any
\* other answer into one attempt to decode the current message.
C15_OneRequestOneOutcome ==
    [][/\ pc = "waiting" => Len(calls) = 1 /\ calls[1].fn = "receive"
       /\ ReturnStep =>
            LET a == HostAnswer(calls[1], queue, cur, pos) IN
            /\ calls'[1] = calls[1]
            /\ \A i \in 2..Len(calls') : calls'[i].fn # "receive"
            /\ a.message_type = TIMEOUT =>
                  /\ pc' = "idle"
                  /\ result'.res = "Timeout"
                  /\ result'.msg = IF call.on = "LinkMailbox" THEN "Normal" ELSE "Bare"
                  /\ Len(calls') = 1
            /\ (a.message_type = SIGNAL /\ call.on = "LinkMailbox") =>
                  /\ pc' = "idle"
                  /\ result'.msg = "Signal"
                  /\ calls' = <<calls[1], HostGetTag>>
            /\ a.message_type \notin {SIGNAL, TIMEOUT} =>
                  /\ pc' = "idle"
                  /\ Len(calls') >= 2
                  /\ calls'[2] = HostReadData
                  /\ \A i \in 3..Len(calls') : calls'[i].fn # "read_data"
                  /\ result'.msg = IF call.on = "LinkMailbox" THEN "Normal" ELSE "Bare"
                  /\ result'.res = IF Decode(a.cur.data).ok
                                   THEN "Ok" ELSE "DeserializationFailed"
                  /\ result'.val = Decode(a.cur.data).val
      ]_vars

\* tag_receive on a LinkMailbox has returned a decode failure after one
\* request and one read of the message.
C15_Witness ==
    /\ pc = "idle"
    /\ call.on = "LinkMailbox"
    /\ call.name = "tag_receive"
    /\ result.res = "DeserializationFailed"
    /\ calls = <<HostReceive(call.tag[1], 0), HostReadData>>

\* The four receive operations both handle types have.
SharedReceives == {"receive", "receive_timeout", "tag_receive", "tag_receive_timeout"}

\* The operation that differs from `name` in taking a tag filter.
TwinName(name) ==
    CASE name = "receive" -> "tag_receive"
      [] name = "tag_receive" -> "receive"
      [] name = "receive_timeout" -> "tag_receive_timeout"
      [] name = "tag_receive_timeout" -> "receive_timeout"

\* No filter for the literal filter 0 and the reverse.
TwinTag(tag) == IF tag = None THEN Some(0) ELSE None

C17_SignalAborts ==
    [][/\ (/\ ReturnStep
           /\ call.on = "Mailbox"
           /\ HostAnswer(calls[1], queue, cur, pos).message_type = SIGNAL) =>
            /\ pc' = "aborted"
            /\ result' = NoResult
            /\ calls' = calls
            /\ cur'.kind = "signal"
            /\ pos' = 0
       /\ pc = "aborted" => FALSE
      ]_vars

\* receive_timeout on a Mailbox has ended at the assertion with the signal
\* in the scratch area, unread.
C17_Witness ==
    /\ pc = "aborted"
    /\ call = [name |-> "receive_timeout", on |-> "Mailbox", tag |-> None]
    /\ cur.kind = "signal"
    /\ pos = 0
    /\ result = NoResult
    /\ Len(calls) = 1

\* C18: the process holds one handle, and its type agrees with the link-mode
\* flag after every sequence of transformer operations and receives: the
\* flag is trap exactly when the handle is a LinkMailbox and terminate
\* exactly when it is a Mailbox.
C18_HandleAgreesWithFlag ==
    /\ handle \in {"Mailbox", "LinkMailbox"}
    /\ linkMode \in {"trap", "terminate"}
    /\ handle = "LinkMailbox" <=> linkMode = "trap"
    /\ handle = "Mailbox" <=> linkMode = "terminate"

\* The handle went from LinkMailbox to Mailbox and back to LinkMailbox, and
\* the flag is on trap again.
C18_Witness ==
    /\ pc = "idle"
    /\ prevXform.name = "panic_if_link_panics"
    /\ prevXform.on = "LinkMailbox"
    /\ call = [name |-> "catch_link_panic", on |-> "Mailbox", tag |-> None]
    /\ handle = "LinkMailbox"
    /\ linkMode = "trap"
    /\ modeBefore = "terminate"
    /\ queue # <<>>

\* C19: the two copies of the receive engine agree: for every operation and
\* argument pair and every mailbox state, the LinkMailbox operation makes
\* the host request the Mailbox operation makes and, when the host does not
\* answer with SIGNAL, returns Message::Normal(r) for the r the Mailbox
\* operation returns, after the same host calls and with the same queue and
\* scratch message left.
C19_EnginesAgree ==
    [][/\ (pc = "idle" /\ pc' = "waiting" /\ call'.name \in SharedReceives) =>
            /\ calls'[1] = Request(call'.tag, timeout')
            /\ calls'[1] = LinkRequest(call'.tag, timeout')
       /\ (/\ ReturnStep
           /\ call.name \in SharedReceives
           /\ HostAnswer(calls[1], queue, cur, pos).message_type # SIGNAL) =>
            LET m == Complete("Mailbox", call.name, Request(call.tag, timeout),
                              queue, cur, pos)
                l == Complete("LinkMailbox", call.name, LinkRequest(call.tag, timeout),
                              queue, cur, pos)
            IN /\ m.result.msg = "Bare"
               /\ l.result = [m.result EXCEPT !.msg = "Normal"]
               /\ l.queue = m.queue
               /\ l.cur = m.cur
               /\ l.pos = m.pos
               /\ l.calls = m.calls
               /\ l.pc = "idle"
               /\ m.pc = "idle"
               /\ result' = IF call.on = "Mailbox" THEN m.result ELSE l.result
               /\ queue' = m.queue
      ]_vars

\* receive_timeout(0) on a LinkMailbox has returned Normal(Ok) for the entry
\* at the head of the queue, with a signal queued behind it.
C19_Witness ==
    /\ pc = "idle"
    /\ call.on = "LinkMailbox"
    /\ call.name = "receive_timeout"
    /\ calls = <<HostReceive(0, 1), HostReadData>>
    /\ result.msg = "Normal"
    /\ result.res = "Ok"
    /\ queue # <<>>
    /\ queue[1].kind = "signal"

====
